---------------------------- MODULE Spec2Model ----------------------------
(***************************************************************************)
(* Field Path Optimizer (src/app.py): the heading scan that minimises the  *)
(* number of parallel passes over a field polygon, and the evaluation of   *)
(* the user's current heading.                                             *)
(*                                                                         *)
(* Units.  Angles are counted in ticks of half a degree (angle_step = 0.5  *)
(* degree = 1 tick).  Lengths the user enters (machine_width, the field's  *)
(* vertices) are whole units; every coordinate the geometry kernel         *)
(* (shapely) produces is kept in fixed point, CoordScale parts to the      *)
(* unit, where the program keeps a double.  Sines and cosines are fixed    *)
(* point with TrigScale parts to 1; they are exact at the quarter turns,   *)
(* as they are in shapely.affinity.rotate.                                 *)
(***************************************************************************)
EXTENDS Integers, Sequences, FiniteSets

\* ------------------------------------------------------------------ units

CoordScale == 10^2
TrigScale  == 10^5

\* d degrees, in ticks.
Deg(d) == 2 * d

\* n / d rounded to the nearest integer (d > 0).
RoundDiv(n, d) == (n + (d \div 2)) \div d

Min2(a, b) == IF a <= b THEN a ELSE b
Max2(a, b) == IF a >= b THEN a ELSE b

SetMin(S) == CHOOSE m \in S : \A n \in S : m <= n
SetMax(S) == CHOOSE m \in S : \A n \in S : m >= n

\* The elements of a finite set of integers, in increasing order.
RECURSIVE SortedSeq(_)
SortedSeq(S) ==
    IF S = {} THEN << >>
    ELSE LET m == SetMin(S) IN << m >> \o SortedSeq(S \ {m})

\* ------------------------------------------------------------ trigonometry

\* sin(i * 0.5 degree) * TrigScale for i = 0 .. 180, as math.sin gives it.
SinTable ==
    << 0, 873, 1745, 2618, 3490, 4362, 5234, 6105, 6976, 7846,
       8716, 9585, 10453, 11320, 12187, 13053, 13917, 14781, 15643, 16505,
       17365, 18224, 19081, 19937, 20791, 21644, 22495, 23345, 24192, 25038,
       25882, 26724, 27564, 28402, 29237, 30071, 30902, 31730, 32557, 33381,
       34202, 35021, 35837, 36650, 37461, 38268, 39073, 39875, 40674, 41469,
       42262, 43051, 43837, 44620, 45399, 46175, 46947, 47716, 48481, 49242,
       50000, 50754, 51504, 52250, 52992, 53730, 54464, 55194, 55919, 56641,
       57358, 58070, 58779, 59482, 60182, 60876, 61566, 62251, 62932, 63608,
       64279, 64945, 65606, 66262, 66913, 67559, 68200, 68835, 69466, 70091,
       70711, 71325, 71934, 72537, 73135, 73728, 74314, 74896, 75471, 76041,
       76604, 77162, 77715, 78261, 78801, 79335, 79864, 80386, 80902, 81412,
       81915, 82413, 82904, 83389, 83867, 84339, 84805, 85264, 85717, 86163,
       86603, 87036, 87462, 87882, 88295, 88701, 89101, 89493, 89879, 90259,
       90631, 90996, 91355, 91706, 92050, 92388, 92718, 93042, 93358, 93667,
       93969, 94264, 94552, 94832, 95106, 95372, 95630, 95882, 96126, 96363,
       96593, 96815, 97030, 97237, 97437, 97630, 97815, 97992, 98163, 98325,
       98481, 98629, 98769, 98902, 99027, 99144, 99255, 99357, 99452, 99540,
       99619, 99692, 99756, 99813, 99863, 99905, 99939, 99966, 99985, 99996,
       100000 >>

\* sin of an angle of t ticks, any integer t.
Sin(t) ==
    LET r == t % Deg(360) IN
    IF r <= Deg(90) THEN SinTable[r + 1]
    ELSE IF r <= Deg(180) THEN SinTable[Deg(180) - r + 1]
    ELSE IF r <= Deg(270) THEN -SinTable[r - Deg(180) + 1]
    ELSE -SinTable[Deg(360) - r + 1]

Cos(t) == Sin(t + Deg(90))

\* ------------------------------------------------- geometry kernel (shapely)
\* A point is <<x, y>>; a polygon is the sequence of its ring's vertices
\* (closed implicitly, simple, no holes); a LineString is the sequence of
\* its two end points.  What intersection returns is a record
\* [type, parts]: parts holds one coordinate sequence per component, a
\* single point <<p>> or a segment <<p, q>>; an empty geometry has no parts.

\* shapely.affinity.rotate of one coordinate: counter-clockwise by t ticks
\* about origin o.
RotatePoint(p, t, o) ==
    LET dx == p[1] - o[1]
        dy == p[2] - o[2]
        c  == Cos(t)
        s  == Sin(t)
    IN  << o[1] + RoundDiv(dx * c - dy * s, TrigScale),
           o[2] + RoundDiv(dx * s + dy * c, TrigScale) >>

\* rotate(geom, angle, origin=origin, use_radians=False) of a coordinate
\* sequence (a polygon ring or a line).
Rotate(coords, t, o) == [i \in DOMAIN coords |-> RotatePoint(coords[i], t, o)]

\* rotate(...) of an intersection result.
RotateGeom(g, t, o) ==
    [type |-> g.type,
     parts |-> [k \in DOMAIN g.parts |-> Rotate(g.parts[k], t, o)]]

\* geom.bounds: (minx, miny, maxx, maxy).
Bounds(poly) ==
    LET xs == {poly[i][1] : i \in DOMAIN poly}
        ys == {poly[i][2] : i \in DOMAIN poly}
    IN  << SetMin(xs), SetMin(ys), SetMax(xs), SetMax(ys) >>

\* polygon.centroid: the area centroid.  The sums are taken over the whole
\* units of the field's vertices and the result is rounded to fixed point.
Centroid(poly) ==
    LET n     == Len(poly)
        ux(i) == poly[i][1] \div CoordScale
        uy(i) == poly[i][2] \div CoordScale
        nx(i) == (i % n) + 1
        cr(i) == ux(i) * uy(nx(i)) - ux(nx(i)) * uy(i)
        SumTo[k \in 0..n] ==
            IF k = 0 THEN << 0, 0, 0 >>
            ELSE << SumTo[k-1][1] + cr(k),
                    SumTo[k-1][2] + (ux(k) + ux(nx(k))) * cr(k),
                    SumTo[k-1][3] + (uy(k) + uy(nx(k))) * cr(k) >>
        a2 == SumTo[n][1]
        sg == IF a2 < 0 THEN -1 ELSE 1
    IN  << RoundDiv(sg * CoordScale * SumTo[n][2], 3 * sg * a2),
           RoundDiv(sg * CoordScale * SumTo[n][3], 3 * sg * a2) >>

\* The x at which the edge from a to b meets the height c, for an edge with
\* min(ya, yb) <= c <= max(ya, yb) that is not horizontal.
CrossX(a, b, c) ==
    LET lo == IF a[2] <= b[2] THEN a ELSE b
        hi == IF a[2] <= b[2] THEN b ELSE a
    IN  lo[1] + RoundDiv((c - lo[2]) * (hi[1] - lo[1]), hi[2] - lo[2])

\* The type shapely gives a result with these components.
GeomType(parts) ==
    LET n    == Len(parts)
        segs == {k \in 1..n : Len(parts[k]) = 2}
    IN  IF n = 0 THEN "LineString"
        ELSE IF n = 1 THEN (IF segs = {} THEN "Point" ELSE "LineString")
        ELSE IF Cardinality(segs) = n THEN "MultiLineString"
        ELSE IF segs = {} THEN "MultiPoint"
        ELSE "GeometryCollection"

\* line.intersection(polygon) for a horizontal line: the maximal stretches
\* of the line inside the closed polygon, left to right.
Intersection(line, poly) ==
    LET c     == line[1][2]
        xl    == line[1][1]
        xr    == line[2][1]
        n     == Len(poly)
        A(i)  == poly[i]
        B(i)  == poly[(i % n) + 1]
        E     == 1..n
        \* edge i passes from one side of the height c to the other, a vertex
        \* at height c counting as below
        Up(i) == (A(i)[2] > c) # (B(i)[2] > c)
        \* edge i crosses the height c strictly inside the edge
        In(i) == (A(i)[2] < c /\ B(i)[2] > c) \/ (A(i)[2] > c /\ B(i)[2] < c)
        Flat(i) == A(i)[2] = c /\ B(i)[2] = c
        breaks == {A(i)[1] : i \in {j \in E : A(j)[2] = c}}
                    \cup {CrossX(A(i), B(i), c) : i \in {j \in E : In(j)}}
        bs    == SortedSeq(breaks)
        m     == Len(bs)
        \* the open stretch between breaks j and j+1 lies in the polygon: on
        \* a horizontal edge, or in the interior (an odd number of boundary
        \* crossings to its right)
        Cov(j) ==
            \/ \E i \in E : /\ Flat(i)
                            /\ Min2(A(i)[1], B(i)[1]) <= bs[j]
                            /\ bs[j+1] <= Max2(A(i)[1], B(i)[1])
            \/ Cardinality({i \in E : Up(i) /\ CrossX(A(i), B(i), c) >= bs[j+1]})
                 % 2 = 1
        starts == {j \in 1..m : j = 1 \/ ~Cov(j - 1)}
        EndOf(j) == SetMin({k \in j..m : k = m \/ ~Cov(k)})
        \* clipped to the line's own extent
        kept  == {j \in starts : bs[EndOf(j)] >= xl /\ bs[j] <= xr}
        ks    == SortedSeq(kept)
        Part(j) ==
            LET a == Max2(bs[j], xl)
                b == Min2(bs[EndOf(j)], xr)
            IN  IF a = b THEN << <<a, c>> >> ELSE << <<a, c>>, <<b, c>> >>
        parts == [k \in DOMAIN ks |-> Part(ks[k])]
    IN  [type |-> GeomType(parts), parts |-> parts]

\* geom.is_empty
IsEmpty(g) == g.parts = << >>

\* len(geom.geoms)
NumGeoms(g) == Len(g.parts)

\* ------------------------------------------------------------------ inputs

\* A length of v whole units, in fixed point.
Units(v) == v * CoordScale

\* A polygon given in whole units, as the kernel holds it.
ToKernel(poly) == [i \in DOMAIN poly |-> << Units(poly[i][1]), Units(poly[i][2]) >>]

\* The fields of the model (vertices in whole units).
Square40   == << <<0, 0>>, <<40, 0>>, <<40, 40>>, <<0, 40>> >>
Rect20x40  == << <<0, 0>>, <<20, 0>>, <<20, 40>>, <<0, 40>> >>
FlatTri    == << <<0, 0>>, <<30, 0>>, <<11, 24>> >>
Scalene    == << <<0, 0>>, <<29, 7>>, <<9, 23>> >>
UShape     == << <<0, 0>>, <<31, 0>>, <<31, 27>>, <<23, 27>>,
                 <<23, 11>>, <<8, 11>>, <<8, 27>>, <<0, 27>> >>
TwoPeaks   == << <<0, 0>>, <<40, 0>>, <<30, 30>>, <<20, 5>>, <<10, 20>> >>

Fields     == {Square40, Rect20x40, FlatTri, Scalene, UShape, TwoPeaks}
ConvexFields == {Square40, Rect20x40, FlatTri, Scalene}

\* The machine widths the user may enter (st.number_input sets no minimum).
Widths     == {-48, -5, 0, 10, 15, 48}

\* The current headings the user may enter (0 .. 359 degrees).
HeadingInputs   == {0, 45, 90, 135, 180, 270, 359}

\* The most sweep lines kept of a loop that never ends (machine_width <= 0).
MaxLines   == 12

\* ----------------------------------------------------------------- program

angle_step == 1
None       == -1
Infinity   == 2^30
HalfSpan   == Units(10^5)

VARIABLES
    field_geom, origin, machine_width, current_heading,
    pc, angle, rotated_field, rminy, rmaxy, cx, lines, y,
    clipped, pass_count, best_angle, best_pass_count, best_lines,
    optimized_heading_forward, optimized_heading_reverse, final_lines,
    adjusted_current_heading, rotated_current_field, cminy, cmaxy,
    current_lines, clipped_current, current_passes, final_current_lines,
    counts, kernel_invoked, error

inputVars   == << field_geom, origin, machine_width >>
scanVars    == << angle, rotated_field, rminy, rmaxy, clipped, pass_count,
                  best_angle, best_pass_count, best_lines, lines, counts >>
headingVars == << optimized_heading_forward, optimized_heading_reverse,
                  final_lines >>
currentVars == << current_heading, adjusted_current_heading,
                  rotated_current_field, cminy, cmaxy, current_lines,
                  clipped_current, current_passes, final_current_lines >>
vars == << inputVars, scanVars, headingVars, currentVars,
           pc, cx, y, kernel_invoked, error >>

\* LineString([(cx - 1e5, y), (cx + 1e5, y)])
SweepLine(x, yy) == << <<x - HalfSpan, yy>>, <<x + HalfSpan, yy>> >>

\* A loop condition that stops one line early: y < rmaxy + 2 * machine_width.
InExtentStrict(yy, ymax, w) == yy < ymax + 2 * Units(w)

\* The while loop's condition: y <= rmaxy + 2 * machine_width.
InExtent(yy, ymax, w) == yy <= ymax + 2 * Units(w)

\* A step by the default width whatever the user entered: y += 48.
NextYDefault(yy, w) == yy + Units(48)

\* y += machine_width
NextY(yy, w) == yy + Units(w)

\* The first line's height: rminy - 2 * machine_width.
FirstY(ymin, w) == ymin - 2 * Units(w)

\* [line.intersection(f) for line in lines if not line.intersection(f).is_empty]
Clip(ls, poly) ==
    LET all == [k \in DOMAIN ls |-> Intersection(ls[k], poly)]
    IN  SelectSeq(all, LAMBDA g : ~IsEmpty(g))

\* What one clipped geometry adds to the pass count.
Passes(g) ==
    IF IsEmpty(g) THEN 0
    ELSE IF g.type = "LineString" THEN 1
    ELSE IF g.type = "MultiLineString" THEN NumGeoms(g)
    ELSE 0

\* The counting loop over the clipped geometries.
RECURSIVE CountPasses(_)
CountPasses(gs) ==
    IF gs = << >> THEN 0
    ELSE CountPasses(SubSeq(gs, 1, Len(gs) - 1)) + Passes(gs[Len(gs)])

\* A comparison that lets an equal count replace the best: <=.
BetterOrEqual(count, best) == count <= best

\* if pass_count < best_pass_count
Better(count, best) == count < best

\* The offset added instead of subtracted: (best_angle + 90) % 360.
HeadingForwardPlus(a) == (a + Deg(90)) % Deg(360)

\* (best_angle - 90) % 360
HeadingForward(a) == (a - Deg(90)) % Deg(360)

\* (optimized_heading_forward + 180) % 360
HeadingReverse(f) == (f + Deg(180)) % Deg(360)

\* The whole sweep-line loop for a machine_width > 0, from height yy on.
RECURSIVE SweepLinesFrom(_, _, _, _)
SweepLinesFrom(yy, ymax, w, x) ==
    IF InExtent(yy, ymax, w)
    THEN << SweepLine(x, yy) >> \o SweepLinesFrom(NextY(yy, w), ymax, w, x)
    ELSE << >>

\* The pass count the loop body computes for field f rotated by t ticks with
\* machine width w > 0.
PassCountAt(f, t, w) ==
    LET o  == Centroid(f)
        rf == Rotate(f, t, o)
        b  == Bounds(rf)
    IN  CountPasses(Clip(SweepLinesFrom(FirstY(b[2], w), b[4], w, o[1]), rf))

Init ==
    /\ field_geom \in {ToKernel(f) : f \in Fields}
    /\ origin = Centroid(field_geom)
    /\ machine_width \in Widths
    /\ current_heading = 0      \* the widget's default; entered at CurrentRotate
    /\ pc = "for"
    /\ angle = 0
    /\ best_angle = None
    /\ best_pass_count = Infinity
    /\ best_lines = << >>
    /\ rotated_field = << >>
    /\ rminy = 0 /\ rmaxy = 0 /\ cx = 0 /\ y = 0
    /\ lines = << >>
    /\ clipped = << >>
    /\ pass_count = 0
    /\ optimized_heading_forward = None
    /\ optimized_heading_reverse = None
    /\ final_lines = << >>
    /\ adjusted_current_heading = None
    /\ rotated_current_field = << >>
    /\ cminy = 0 /\ cmaxy = 0
    /\ current_lines = << >>
    /\ clipped_current = << >>
    /\ current_passes = 0
    /\ final_current_lines = << >>
    /\ counts = << >>
    /\ kernel_invoked = FALSE
    /\ error = "none"

\* Lines 85-91: the next candidate angle; rotate the field, take its bounds,
\* start the sweep two widths below it.
ScanRotate ==
    /\ pc = "for"
    /\ LET rf == Rotate(field_geom, angle, origin)
           b  == Bounds(rf)
       IN  /\ rotated_field' = rf
           /\ rminy' = b[2]
           /\ rmaxy' = b[4]
           /\ y' = FirstY(b[2], machine_width)
    /\ cx' = origin[1]
    /\ lines' = << >>
    /\ kernel_invoked' = TRUE
    /\ pc' = "while"
    /\ UNCHANGED << inputVars, headingVars, currentVars, angle, clipped,
                    pass_count, best_angle, best_pass_count, best_lines,
                    counts, error >>

\* Lines 92-95: one turn of the sweep-line loop.
ScanSweep ==
    /\ pc = "while"
    /\ InExtent(y, rmaxy, machine_width)
    /\ (machine_width <= 0) => (Len(lines) < MaxLines)
    /\ lines' = Append(lines, SweepLine(cx, y))
    /\ y' = NextY(y, machine_width)
    /\ UNCHANGED << inputVars, headingVars, currentVars, angle, rotated_field,
                    rminy, rmaxy, clipped, pass_count, best_angle,
                    best_pass_count, best_lines, counts, pc, cx,
                    kernel_invoked, error >>

\* Lines 92, 97-111 and the for loop's step: the sweep is over; clip, count,
\* keep the angle if it is better, go to the next angle or leave the loop.
ScanCount ==
    /\ pc = "while"
    /\ ~InExtent(y, rmaxy, machine_width)
    /\ LET cl == Clip(lines, rotated_field)
           n  == CountPasses(cl)
       IN  /\ clipped' = cl
           /\ pass_count' = n
           /\ counts' = Append(counts, n)
           /\ IF Better(n, best_pass_count)
              THEN /\ best_pass_count' = n
                   /\ best_angle' = angle
                   /\ best_lines' = cl
              ELSE UNCHANGED << best_pass_count, best_angle, best_lines >>
    /\ IF angle + angle_step < Deg(180)
       THEN angle' = angle + angle_step /\ pc' = "for"
       ELSE angle' = angle /\ pc' = "headings"
    /\ UNCHANGED << inputVars, headingVars, currentVars, rotated_field, rminy,
                    rmaxy, lines, cx, y, kernel_invoked, error >>

\* Lines 113-115: the headings of the best angle; its lines rotated back.
ConvertHeadings ==
    /\ pc = "headings"
    /\ optimized_heading_forward' = HeadingForward(best_angle)
    /\ optimized_heading_reverse' = HeadingReverse(optimized_heading_forward')
    /\ final_lines' = [k \in DOMAIN best_lines |->
                          RotateGeom(best_lines[k], -best_angle, origin)]
    /\ pc' = "current"
    /\ UNCHANGED << inputVars, scanVars, currentVars, cx, y, kernel_invoked,
                    error >>

\* Lines 118-123: the current heading; rotate the field by it plus 90.
CurrentRotate ==
    /\ pc = "current"
    /\ \E h \in HeadingInputs :
         /\ current_heading' = h
         /\ adjusted_current_heading' = Deg(h) + Deg(90)
    /\ LET rf == Rotate(field_geom, adjusted_current_heading', origin)
           b  == Bounds(rf)
       IN  /\ rotated_current_field' = rf
           /\ cminy' = b[2]
           /\ cmaxy' = b[4]
           /\ y' = FirstY(b[2], machine_width)
    /\ current_lines' = << >>
    /\ cx' = origin[1]
    /\ pc' = "cwhile"
    /\ UNCHANGED << inputVars, scanVars, headingVars, clipped_current,
                    current_passes, final_current_lines, kernel_invoked,
                    error >>

\* Lines 124-127: one turn of the current heading's sweep-line loop.
CurrentSweep ==
    /\ pc = "cwhile"
    /\ InExtent(y, cmaxy, machine_width)
    /\ (machine_width <= 0) => (Len(current_lines) < MaxLines)
    /\ current_lines' = Append(current_lines, SweepLine(cx, y))
    /\ y' = NextY(y, machine_width)
    /\ UNCHANGED << inputVars, scanVars, headingVars, current_heading,
                    adjusted_current_heading, rotated_current_field, cminy,
                    cmaxy, clipped_current, current_passes,
                    final_current_lines, pc, cx, kernel_invoked, error >>

\* Lines 124, 129-142: clip and count the current heading's lines.
CurrentCount ==
    /\ pc = "cwhile"
    /\ ~InExtent(y, cmaxy, machine_width)
    /\ LET cl == Clip(current_lines, rotated_current_field)
       IN  /\ clipped_current' = cl
           /\ current_passes' = CountPasses(cl)
           /\ final_current_lines' = [k \in DOMAIN cl |->
                 RotateGeom(cl[k], -adjusted_current_heading, origin)]
    /\ pc' = "done"
    /\ UNCHANGED << inputVars, scanVars, headingVars, current_heading,
                    adjusted_current_heading, rotated_current_field, cminy,
                    cmaxy, current_lines, cx, y, kernel_invoked, error >>

Next ==
    \/ ScanRotate
    \/ ScanSweep
    \/ ScanCount
    \/ ConvertHeadings
    \/ CurrentRotate
    \/ CurrentSweep
    \/ CurrentCount

Spec == Init /\ [][Next]_vars

\* ------------------------------------------------------------------ claims

\* The scan has left its loop.
ScanOver == pc \in {"headings", "current", "cwhile", "done"}

\* The headings have been computed.
HeadingsSet == pc \in {"current", "cwhile", "done"}

\* An angle has been evaluated and the next has not been started: clipped
\* and pass_count are those of LastAngle.
Evaluated == counts # << >> /\ pc \in {"for", "headings"}

\* The angle evaluated last.
LastAngle == (Len(counts) - 1) * angle_step

\* The candidate angle whose pass count is counts[k].
AngleOf(k) == (k - 1) * angle_step

\* The number of candidate angles below 180 degrees.
NumAngles == (Deg(180) + angle_step - 1) \div angle_step

\* a / b rounded up (b > 0).
CeilDiv(a, b) == -((-a) \div b)

\* The segments among the components of a list of clipped geometries.
RECURSIVE Segments(_)
Segments(gs) ==
    IF gs = << >> THEN 0
    ELSE Segments(SubSeq(gs, 1, Len(gs) - 1))
           + Cardinality({k \in DOMAIN gs[Len(gs)].parts :
                             Len(gs[Len(gs)].parts[k]) = 2})

\* The square of the largest distance between two vertices, in whole units.
Diameter2(poly) ==
    SetMax({ ((poly[i][1] - poly[j][1]) \div CoordScale)
               * ((poly[i][1] - poly[j][1]) \div CoordScale)
           + ((poly[i][2] - poly[j][2]) \div CoordScale)
               * ((poly[i][2] - poly[j][2]) \div CoordScale)
             : i \in DOMAIN poly, j \in DOMAIN poly })

\* C1: at every moment of the scan the recorded best pass count is the
\* minimum of the pass counts of the angles evaluated so far, all candidates
\* 0, step, 2*step, ... below 180 degrees once the scan is over, and
\* best_angle is the lowest angle with that count (an equal later count
\* never replaces it).
C1_BestIsLowestMinimum ==
    /\ ScanOver => Len(counts) = NumAngles
    /\ counts # << >> =>
         /\ \A k \in DOMAIN counts : best_pass_count <= counts[k]
         /\ \E k \in DOMAIN counts :
              /\ best_angle = AngleOf(k)
              /\ counts[k] = best_pass_count
              /\ \A j \in 1..(k - 1) : counts[j] > best_pass_count

\* C1's case: the scan is over, the best angle is not the first one and a
\* later angle has the same pass count.
C1_Witness ==
    /\ pc = "headings"
    /\ best_angle > 0
    /\ \E k \in DOMAIN counts :
         AngleOf(k) > best_angle /\ counts[k] = best_pass_count

\* C2: a run with machine_width <= 0 invokes no geometry-kernel operation
\* and ends in the InvalidParameter error.
C2_InvalidWidthRejected ==
    machine_width <= 0 =>
        /\ ~kernel_invoked
        /\ pc # "for" => error = "InvalidParameter"

\* C3: when every candidate angle gives zero passes the scan ends in the
\* NoCoverageFound error instead of reporting headings for a best angle.
C3_NoCoverageIsAnError ==
    ( /\ machine_width > 0
      /\ HeadingsSet
      /\ \A k \in DOMAIN counts : counts[k] = 0 )
    => error = "NoCoverageFound"

\* C4: heading_forward = (best_angle - 90) mod 360 and heading_reverse =
\* (heading_forward + 180) mod 360: both lie in [0, 360), they differ by 180
\* modulo 360, and the forward heading plus 90 is the best angle, which
\* lies in [0, 180).
C4_HeadingsComplementary ==
    HeadingsSet =>
        /\ best_angle \in 0..(Deg(180) - 1)
        /\ optimized_heading_forward \in 0..(Deg(360) - 1)
        /\ optimized_heading_reverse \in 0..(Deg(360) - 1)
        /\ (optimized_heading_forward + Deg(90)) % Deg(360) = best_angle
        /\ (optimized_heading_forward + Deg(180)) % Deg(360)
             = optimized_heading_reverse
        /\ (optimized_heading_reverse + Deg(180)) % Deg(360)
             = optimized_heading_forward

\* C4's case: headings computed for a best angle below 90 degrees, where
\* the subtraction wraps around.
C4_Witness ==
    /\ pc = "done"
    /\ best_angle \in 1..(Deg(90) - 1)
    /\ optimized_heading_forward > Deg(270)
    /\ optimized_heading_reverse < Deg(180)

\* C5: with machine_width larger than the field's extent in every direction
\* the pass count is exactly 1 at every candidate angle, and the scan
\* reports pass_count = 1.
C5_WideMachineOnePass ==
    ( /\ machine_width > 0
      /\ machine_width * machine_width > Diameter2(field_geom) )
    => /\ \A k \in DOMAIN counts : counts[k] = 1
       /\ ScanOver => best_pass_count = 1

\* C6: for an axis-aligned rectangle whose extent across the direction of
\* travel is exactly n * machine_width, the current-heading evaluation at an
\* axis-aligned heading reports exactly n passes (a square of side 40 with
\* machine_width 10 at heading 0: 4 passes).
C6_RectanglePasses ==
    ( /\ pc = "done"
      /\ machine_width > 0
      /\ field_geom \in {ToKernel(Square40), ToKernel(Rect20x40)}
      /\ current_heading % 90 = 0
      /\ (cmaxy - cminy) % Units(machine_width) = 0 )
    => current_passes * Units(machine_width) = cmaxy - cminy

SweepSoFar(ls, ymin, ymax) ==
    LET sp == Units(machine_width) IN
    /\ \A i \in DOMAIN ls :
         /\ ls[i] = SweepLine(origin[1], ymin - 2 * sp + (i - 1) * sp)
         /\ ls[i][1][2] <= ymax + 2 * sp
    /\ Len(ls) <= CeilDiv(ymax - ymin + 4 * sp, sp) + 1

\* The loop that generated ls has ended with every such line generated.
SweepComplete(ls, ymin, ymax) ==
    LET sp == Units(machine_width) IN
    ymin - 2 * sp + Len(ls) * sp > ymax + 2 * sp

SegmentsOnly(gs, count) ==
    /\ \A k \in DOMAIN gs : gs[k].type \in {"LineString", "MultiLineString"}
    /\ Segments(gs) = count

\* C9: an intersection that collapses to a point adds nothing to the pass
\* count and is not kept among the resulting lines, so that the recorded
\* lines hold exactly as many segments as the recorded pass count.
C9_PointsDropped ==
    /\ counts # << >> =>
         /\ SegmentsOnly(clipped, pass_count)
         /\ SegmentsOnly(best_lines, best_pass_count)
    /\ pc = "done" => SegmentsOnly(clipped_current, current_passes)

\* C10: rotating by a + 180 degrees gives the same pass count as rotating
\* by a, so the current-heading evaluation at heading h reports the pass
\* count the scan computed for the candidate angle (h + 90) mod 180.
C10_HalfTurnSymmetry ==
    machine_width > 0 =>
        /\ Evaluated =>
             PassCountAt(field_geom, LastAngle + Deg(180), machine_width)
               = pass_count
        /\ pc = "done" =>
             current_passes
               = counts[((adjusted_current_heading % Deg(180)) \div angle_step) + 1]

=============================================================================
